---------------------------- MODULE Spec2Model ----------------------------
(***************************************************************************)
(* A model of site_map.py: the recursive, concurrent crawl build_site_map, *)
(* the link classification it depends on, and main, which writes the       *)
(* result to data.json.                                                    *)
(*                                                                         *)
(* A Python str is a sequence of one-character strings, so that strip,     *)
(* lstrip, startswith, slicing and lower act on characters as they do in   *)
(* Python.  A coroutine invocation of build_site_map is an element of      *)
(* `tasks`; its field pc is the await at which it is suspended.            *)
(***************************************************************************)
EXTENDS Integers, Sequences, FiniteSets, TLC

VARIABLES
    tasks,            \* the build_site_map invocations of the current top-level call
    processed_sites,  \* the set object bound to the default argument (line 71)
    main_pc,          \* where main stands: "idle", "await", "done", "raised"
    data_json,        \* the list last dumped to data.json (<<>> before any dump)
    calls,            \* the number of calls of main made so far
    prev_call,        \* the arguments of the call that wrote data_json
    applied           \* a classification function called on its own: the
                      \* function, its arguments and what it returned

\* The state of the crawl.
crawl_vars == <<tasks, processed_sites, main_pc, data_json, calls, prev_call>>

vars == <<tasks, processed_sites, main_pc, data_json, calls, prev_call, applied>>

---------------------------------------------------------------------------
(* Bounds of the model. *)

\* The largest max_depth a caller passes.
MaxDepth == 3

\* The number of successive calls of main in one process.
MaxCalls == 2

\* The longest list of links a classification function is called on.
MaxLen == 2

---------------------------------------------------------------------------
(* Python str primitives. *)

\* The prefix of s made of characters in chars ends before this index.
LStripIdx(s, chars) ==
    IF \A i \in 1..Len(s) : s[i] \in chars
    THEN Len(s) + 1
    ELSE CHOOSE i \in 1..Len(s) :
            /\ s[i] \notin chars
            /\ \A j \in 1..(i - 1) : s[j] \in chars

\* The suffix of s made of characters in chars starts after this index.
RStripIdx(s, chars) ==
    IF \A i \in 1..Len(s) : s[i] \in chars
    THEN 0
    ELSE CHOOSE i \in 1..Len(s) :
            /\ s[i] \notin chars
            /\ \A j \in (i + 1)..Len(s) : s[j] \in chars

\* str.lstrip(chars): drops every leading character that is in chars.
lstrip(s, chars) == SubSeq(s, LStripIdx(s, chars), Len(s))

\* str.rstrip(chars).
rstrip(s, chars) == SubSeq(s, 1, RStripIdx(s, chars))

\* str.strip(chars): both ends.
strip(s, chars) == lstrip(rstrip(s, chars), chars)

\* set(l): the elements of a list.
SetOf(l) == {l[i] : i \in 1..Len(l)}

\* The characters of a str, as the set lstrip and strip take.
CharsOf(s) == SetOf(s)

\* str.startswith(prefix).
startswith(s, prefix) ==
    /\ Len(prefix) <= Len(s)
    /\ SubSeq(s, 1, Len(prefix)) = prefix

UpperCase ==
    <<"A","B","C","D","E","F","G","H","I","J","K","L","M",
      "N","O","P","Q","R","S","T","U","V","W","X","Y","Z">>

LowerCase ==
    <<"a","b","c","d","e","f","g","h","i","j","k","l","m",
      "n","o","p","q","r","s","t","u","v","w","x","y","z">>

LowerChar(c) ==
    IF \E i \in 1..Len(UpperCase) : UpperCase[i] = c
    THEN LowerCase[CHOOSE i \in 1..Len(UpperCase) : UpperCase[i] = c]
    ELSE c

\* str.lower().
lower(s) == [i \in 1..Len(s) |-> LowerChar(s[i])]

\* s[-4:]: the last four characters, or all of s when it is shorter.
Last4(s) == IF Len(s) <= 4 THEN s ELSE SubSeq(s, Len(s) - 3, Len(s))

\* Equality of two strs, character by character.
StrEq(s, t) == Len(s) = Len(t) /\ \A i \in 1..Len(s) : s[i] = t[i]

---------------------------------------------------------------------------
(* The literals of site_map.py. *)

HTTPS == <<"h","t","t","p","s",":","/","/">>
HTTP == <<"h","t","t","p",":","/","/">>
WWW == <<"w","w","w",".">>
SLASH == <<"/">>

\* IMAGE_EXTS = [".ico", ".png", "jpg", ".gif"]
IMAGE_EXTS ==
    { <<".","i","c","o">>, <<".","p","n","g">>, <<"j","p","g">>, <<".","g","i","f">> }

---------------------------------------------------------------------------
(* The web the crawl runs on.  fetch_html(session, url) returns the body   *)
(* the server holds for url; a body is given by the urls HREF_PROG finds   *)
(* in it.                                                                  *)

EMPTY == <<>>
URL_S == HTTPS \o <<"a",".","i","o","/">>
URL_B == HTTPS \o <<"a",".","i","o","/","b">>
URL_B2 == HTTP \o WWW \o <<"a",".","i","o","/","b","/">>
URL_C == HTTPS \o <<"a",".","i","o","/","b","/","c">>
URL_P == HTTPS \o <<"a",".","i","o","/","p",".","P","N","G">>
URL_O == HTTPS \o <<"o",".","i","o","/">>
URL_T == HTTPS \o <<"t",".","i","o">>
URL_J == HTTPS \o <<"t",".","i","o","/","j",".","j","p","g">>
URL_X == HTTP \o <<"p",".","i","o","/","x">>

Urls == {URL_S, URL_B, URL_B2, URL_C, URL_P, URL_O, URL_T, URL_J, URL_X}

\* The urls a caller passes as starting_url ("" included: build_site_map
\* can be called without main's prompt loop).
Seeds == {EMPTY, URL_S, URL_T}

\* The body of each page, as the sequence of its href matches.  URL_B and
\* URL_B2 spell the same resource and hold the same body.
Html(url) ==
    CASE url = URL_S -> <<URL_B, URL_C, URL_P, URL_B>>
      [] url = URL_B -> <<URL_C, URL_B2>>
      [] url = URL_B2 -> <<URL_C, URL_B2>>
      [] url = URL_C -> <<URL_S>>
      [] url = URL_T -> <<URL_J, URL_X>>
      [] url = URL_X -> <<URL_O>>
      [] OTHER -> <<>>

---------------------------------------------------------------------------
(* Link classification. *)

\* strip_http_www(link)
strip_http_www(link) ==
    LET l1 == strip(link, CharsOf(SLASH))
        l2 == IF startswith(l1, HTTPS) THEN lstrip(l1, CharsOf(HTTPS))
              ELSE IF startswith(l1, HTTP) THEN lstrip(l1, CharsOf(HTTP))
              ELSE l1
    IN  IF startswith(l2, WWW) THEN lstrip(l2, CharsOf(WWW)) ELSE l2

\* is_image_link(link)
is_image_link(link) == \E ext \in IMAGE_EXTS : StrEq(lower(Last4(link)), ext)

\* The values of strip_http_www and is_image_link on the urls of the web,
\* computed once: Stripped(link) = strip_http_www(link) and
\* IsImage(link) = is_image_link(link) for every link.
StrippedOf == [u \in Urls |-> strip_http_www(u)]
IsImageOf == [u \in Urls |-> is_image_link(u)]
Stripped(link) == IF link \in Urls THEN StrippedOf[link] ELSE strip_http_www(link)
IsImage(link) == IF link \in Urls THEN IsImageOf[link] ELSE is_image_link(link)

\* get_domain_links(links, domain_url)
get_domain_links(links, domain_url) ==
    SelectSeq(links,
        LAMBDA link :
            /\ startswith(Stripped(link), Stripped(domain_url))
            /\ ~IsImage(link))

\* get_image_links(links)
get_image_links(links) == SelectSeq(links, LAMBDA link : IsImage(link))

\* Fault of line 65: the test left out, every link returned.
get_non_image_links_unfiltered(links) == links

\* get_non_image_links(links)
get_non_image_links(links) == SelectSeq(links, LAMBDA link : ~IsImage(link))

\* The lists list(set) can produce: every order of the set's elements.
ListsOf(S) ==
    { l \in [1..Cardinality(S) -> S] :
        \A i, j \in 1..Cardinality(S) : i # j => l[i] # l[j] }

\* get_all_links_from_html(html), html given as HREF_PROG.findall(html)
\* gives it: the matched urls in document order, repeats included.
get_all_links_from_html(html) == ListsOf(SetOf(html))

---------------------------------------------------------------------------
(* The classification functions called on their own, as test.py calls     *)
(* them: on a link, or on a list of links and a domain url.                *)

\* Links that the pages of the web above do not hold.
L_GIF == <<"a",".","i","o","/","i",".","G","I","F">>
L_JPEG == <<"a",".","i","o","/","i",".","j","p","e","g">>
L_PNG_SLASH == URL_P \o SLASH
L_WWWW == HTTPS \o <<"w","w","w","w",".","a",".","i","o">>
L_W3 == HTTPS \o WWW \o <<"w","3",".","i","o">>
L_SA == HTTP \o <<"s","a",".","i","o">>
L_SAX == HTTPS \o <<"s","a",".","i","o","/","x">>

\* The strs passed as link and as domain_url.
Links ==
    {URL_S, URL_B2, URL_P, URL_T, URL_J, URL_X,
     L_GIF, L_JPEG, L_PNG_SLASH, L_WWWW, L_W3, L_SA, L_SAX}

\* The strs the lists passed as links are made of.
Hrefs == {URL_S, URL_B2, URL_P, URL_J, URL_X, L_SAX}

\* The lists passed as links: up to MaxLen hrefs, repeats allowed.
LinkLists == UNION {[1..n -> Hrefs] : n \in 0..MaxLen}

\* No function has been called.
NotApplied == [fn |-> "none", link |-> EMPTY, links |-> <<>>, out |-> <<>>]

\* The arguments are chosen; the crawl does not run.
ClassifyInit ==
    /\ tasks = <<>>
    /\ processed_sites = {}
    /\ main_pc = "idle"
    /\ data_json = <<>>
    /\ calls = 0
    /\ prev_call = [url |-> EMPTY, max_depth |-> -1]
    /\ applied \in {[NotApplied EXCEPT !.link = l, !.links = ls] :
                        l \in Links, ls \in LinkLists}

\* is_image_link(link)
Apply_is_image_link ==
    /\ applied' = [applied EXCEPT !.fn = "is_image_link",
                                  !.out = is_image_link(applied.link)]
    /\ UNCHANGED crawl_vars

\* strip_http_www(link)
Apply_strip_http_www ==
    /\ applied' = [applied EXCEPT !.fn = "strip_http_www",
                                  !.out = strip_http_www(applied.link)]
    /\ UNCHANGED crawl_vars

\* get_domain_links(links, domain_url), the link taken as domain_url
Apply_get_domain_links ==
    /\ applied' = [applied EXCEPT
                      !.fn = "get_domain_links",
                      !.out = get_domain_links(applied.links, applied.link)]
    /\ UNCHANGED crawl_vars

\* get_image_links(links) and get_non_image_links(links), on the same list
\* as lines 120-121 call them.
Apply_partition ==
    /\ applied' = [applied EXCEPT
                      !.fn = "partition",
                      !.out = [image_links |-> get_image_links(applied.links),
                               non_image_links |->
                                   get_non_image_links(applied.links)]]
    /\ UNCHANGED crawl_vars

ClassifyNext ==
    \/ Apply_is_image_link
    \/ Apply_strip_http_www
    \/ Apply_get_domain_links
    \/ Apply_partition

ClassifySpec == ClassifyInit /\ [][ClassifyNext]_vars

---------------------------------------------------------------------------
(* build_site_map. *)

\* A coroutine object build_site_map(url, max_depth, processed_sites), not
\* yet run.  parent is the invocation whose gather awaits it (0: main);
\* fetched records that the invocation has issued session.get (line 117).
NewTask(url, max_depth, parent) ==
    [url |-> url, max_depth |-> max_depth, parent |-> parent,
     pc |-> "pending", kids |-> <<>>, site_map |-> <<>>,
     exc |-> "none", fetched |-> FALSE]

\* Faults of lines 112-117: the depth test left out; the url tested before
\* the depth; the url test left out.
EnterNoDepthCheck(task) ==
    IF task.url = EMPTY
    THEN [task EXCEPT !.pc = "raised", !.exc = "Exception"]
    ELSE [task EXCEPT !.pc = "fetching", !.fetched = TRUE]

EnterUrlFirst(task) ==
    IF task.url = EMPTY
    THEN [task EXCEPT !.pc = "raised", !.exc = "Exception"]
    ELSE IF task.max_depth = 0
    THEN [task EXCEPT !.pc = "returned"]
    ELSE [task EXCEPT !.pc = "fetching", !.fetched = TRUE]

EnterNoUrlCheck(task) ==
    IF task.max_depth = 0
    THEN [task EXCEPT !.pc = "returned"]
    ELSE [task EXCEPT !.pc = "fetching", !.fetched = TRUE]

\* Lines 112-117: from the call to the first await.
Enter(task) ==
    IF task.max_depth = 0
    THEN [task EXCEPT !.pc = "returned"]
    ELSE IF task.url = EMPTY
    THEN [task EXCEPT !.pc = "raised", !.exc = "Exception"]
    ELSE [task EXCEPT !.pc = "fetching", !.fetched = TRUE]

\* Lines 122-126: the record of one page.
PageRecord(url, links) ==
    [page_url |-> url,
     links |-> get_non_image_links(links),
     images |-> get_image_links(links)]

\* Fault of line 131: the budget handed on undiminished.
ChildDepthSame(max_depth) == max_depth

\* The depth budget a child is given (line 131).
ChildDepth(max_depth) == max_depth - 1

\* Fault of line 127: the url never put into the set.
add_nothing(processed, url) == processed

\* Line 127: processed_sites.add(starting_url).
add(processed, url) == processed \cup {url}

\* Fault of line 133: the test left out, every domain link a candidate.
NotProcessedUntested(domain_link, processed) == TRUE

\* Line 133: the test that keeps a domain link as a candidate.
NotProcessed(domain_link, processed) == domain_link \notin processed

\* Lines 130-134: the coroutines handed to gather, in list order.
domain_link_coros(t, domain_links, processed) ==
    LET cands == SelectSeq(domain_links,
                           LAMBDA link : NotProcessed(link, processed))
    IN  [i \in 1..Len(cands) |->
            NewTask(cands[i], ChildDepth(tasks[t].max_depth), t)]

\* Fault of lines 135-138: the children's records put before the page's own.
JoinedChildrenFirst(own, outs) ==
    LET F[i \in 0..Len(outs)] ==
            IF i = 0 THEN <<>>
            ELSE IF outs[i] # <<>> THEN F[i - 1] \o outs[i] ELSE F[i - 1]
    IN  F[Len(outs)] \o own

\* Lines 135-138: the list returned after the join.
Joined(own, outs) ==
    LET F[i \in 0..Len(outs)] ==
            IF i = 0 THEN own
            ELSE IF outs[i] # <<>> THEN F[i - 1] \o outs[i] ELSE F[i - 1]
    IN  F[Len(outs)]

\* Fault of line 135: gather(..., return_exceptions=True), which ends when
\* every child has ended and hands a child's exception on as a result.
GatherDoneOrRaised(t) ==
    \A i \in 1..Len(tasks[t].kids) :
        tasks[tasks[t].kids[i]].pc \in {"returned", "raised"}

\* Fault of line 135: the join ends as soon as one child has returned,
\* as asyncio.wait(..., return_when=FIRST_COMPLETED) does.
GatherDoneAny(t) ==
    \E i \in 1..Len(tasks[t].kids) : tasks[tasks[t].kids[i]].pc = "returned"

\* gather's future has its result: every child has returned.
GatherDone(t) == \A i \in 1..Len(tasks[t].kids) : tasks[tasks[t].kids[i]].pc = "returned"

\* Fault of line 135: a child's exception is never delivered to the parent
\* that awaits it.
GatherNeverFails(t) == FALSE

\* gather's future has an exception: a child has raised.
GatherFailed(t) == \E i \in 1..Len(tasks[t].kids) : tasks[tasks[t].kids[i]].pc = "raised"

\* Fault of line 135: the children that still run are cancelled when the
\* join fails, as a task group does.
RaisedCancelling(t, exc) ==
    [i \in 1..Len(tasks) |->
        IF i = t THEN [tasks[i] EXCEPT !.pc = "raised", !.exc = exc]
        ELSE IF tasks[i].parent = t
                /\ tasks[i].pc \in {"pending", "fetching", "gather"}
        THEN [tasks[i] EXCEPT !.pc = "raised", !.exc = "CancelledError"]
        ELSE tasks[i]]

\* Line 135: the await raises exc out of invocation t; gather leaves the
\* other children as they are.
Raised(t, exc) == [tasks EXCEPT ![t].pc = "raised", ![t].exc = exc]

---------------------------------------------------------------------------
(* The steps of the event loop.  Each runs one coroutine from one await to *)
(* the next; what the awaiting caller does in the same step is added by    *)
(* MainResume or CallerResume below.                                       *)

Init ==
    /\ tasks = <<>>
    /\ processed_sites = {}
    /\ main_pc = "idle"
    /\ data_json = <<>>
    /\ calls = 0
    /\ prev_call = [url |-> EMPTY, max_depth |-> -1]
    /\ applied = NotApplied

\* Every invocation of the last call has ended: the event loop is idle.
Quiescent == \A t \in 1..Len(tasks) : tasks[t].pc \in {"returned", "raised"}

\* build_site_map(starting_url, max_depth) is awaited with the default
\* processed_sites; it runs to its first await, or to its end.  A caller
\* calls again only when the loop is idle: no task that a failed call left
\* behind is still running.
Call(starting_url, max_depth) ==
    /\ calls < MaxCalls
    /\ main_pc # "await"
    /\ Quiescent
    /\ calls' = calls + 1
    /\ tasks' = <<Enter(NewTask(starting_url, max_depth, 0))>>
    /\ UNCHANGED <<processed_sites, applied>>

\* The event loop runs a child task for the first time.
Invoke(t) ==
    /\ tasks[t].pc = "pending"
    /\ tasks' = [tasks EXCEPT ![t] = Enter(@)]
    /\ UNCHANGED <<processed_sites, calls, applied>>

\* The fetch of line 117 completes; lines 118-135 run to the gather, or to
\* a return.
FetchComplete(t) ==
    /\ tasks[t].pc = "fetching"
    /\ \E links \in get_all_links_from_html(Html(tasks[t].url)) :
       LET url == tasks[t].url
           domain_links == get_domain_links(links, url)
           site_map == <<PageRecord(url, links)>>
           processed == add(processed_sites, url)
           coros == domain_link_coros(t, domain_links, processed)
           ids == [i \in 1..Len(coros) |-> Len(tasks) + i]
       IN  /\ processed_sites' = processed
           /\ tasks' =
                IF Len(coros) = 0
                THEN [tasks EXCEPT ![t].site_map = site_map,
                                   ![t].pc = "returned"]
                ELSE [tasks EXCEPT ![t].site_map = site_map,
                                   ![t].pc = "gather",
                                   ![t].kids = ids] \o coros
    /\ UNCHANGED <<calls, applied>>

\* The fetch of line 117 fails: a transport failure leaves build_site_map.
FetchFail(t) ==
    /\ tasks[t].pc = "fetching"
    /\ tasks' = [tasks EXCEPT ![t].pc = "raised", ![t].exc = "TransportFailure"]
    /\ UNCHANGED <<processed_sites, calls, applied>>

\* Every child has returned: lines 135-138.
GatherReturn(t) ==
    /\ tasks[t].pc = "gather"
    /\ GatherDone(t)
    /\ tasks' = [tasks EXCEPT
                    ![t].pc = "returned",
                    ![t].site_map =
                        Joined(@, [i \in 1..Len(tasks[t].kids) |->
                                      tasks[tasks[t].kids[i]].site_map])]
    /\ UNCHANGED <<processed_sites, calls, applied>>

\* A child has raised: the await of line 135 raises its exception, which
\* nothing catches.  The other children are not cancelled.
GatherRaise(t) ==
    /\ tasks[t].pc = "gather"
    /\ GatherFailed(t)
    /\ \E i \in 1..Len(tasks[t].kids) :
          /\ tasks[tasks[t].kids[i]].pc = "raised"
          /\ tasks' = Raised(t, tasks[tasks[t].kids[i]].exc)
    /\ UNCHANGED <<processed_sites, calls, applied>>

---------------------------------------------------------------------------
(* main: site_map = await build_site_map(domain, max_depth), then the     *)
(* dump.  The awaited coroutine runs inside main's own task, so main goes  *)
(* on in the step in which the top-level invocation (tasks[1]) ends.       *)

\* Where the awaiting caller stands once the step has run.
Awaiting(new_tasks) ==
    main_pc' = CASE new_tasks[1].pc = "returned" -> "done"
                 [] new_tasks[1].pc = "raised" -> "raised"
                 [] OTHER -> "await"

\* Lines 142-144.
MainResume(new_tasks) ==
    LET root == new_tasks[1]
    IN  /\ Awaiting(new_tasks)
        /\ data_json' = IF root.pc = "returned" THEN root.site_map ELSE data_json
        /\ prev_call' = IF root.pc = "returned"
                        THEN [url |-> root.url, max_depth |-> root.max_depth]
                        ELSE prev_call

\* A caller that awaits build_site_map and writes nothing.
CallerResume(new_tasks) ==
    /\ Awaiting(new_tasks)
    /\ UNCHANGED <<data_json, prev_call>>

\* One process that calls main up to MaxCalls times.
Next ==
    \/ \E domain \in Seeds, max_depth \in 0..MaxDepth :
          Call(domain, max_depth) /\ MainResume(tasks')
    \/ \E t \in 1..Len(tasks) : Invoke(t) /\ MainResume(tasks')
    \/ \E t \in 1..Len(tasks) : FetchComplete(t) /\ MainResume(tasks')
    \/ \E t \in 1..Len(tasks) : FetchFail(t) /\ MainResume(tasks')
    \/ \E t \in 1..Len(tasks) : GatherReturn(t) /\ MainResume(tasks')
    \/ \E t \in 1..Len(tasks) : GatherRaise(t) /\ MainResume(tasks')

Spec == Init /\ [][Next]_vars

\* One process that awaits build_site_map up to MaxCalls times and leaves
\* data.json alone.
CrawlNext ==
    \/ \E starting_url \in Seeds, max_depth \in 0..MaxDepth :
          Call(starting_url, max_depth) /\ CallerResume(tasks')
    \/ \E t \in 1..Len(tasks) : Invoke(t) /\ CallerResume(tasks')
    \/ \E t \in 1..Len(tasks) : FetchComplete(t) /\ CallerResume(tasks')
    \/ \E t \in 1..Len(tasks) : FetchFail(t) /\ CallerResume(tasks')
    \/ \E t \in 1..Len(tasks) : GatherReturn(t) /\ CallerResume(tasks')
    \/ \E t \in 1..Len(tasks) : GatherRaise(t) /\ CallerResume(tasks')

\* A step of some task of the event loop.
Run ==
    \E t \in 1..Len(tasks) :
        /\ Invoke(t) \/ FetchComplete(t) \/ FetchFail(t)
              \/ GatherReturn(t) \/ GatherRaise(t)
        /\ CallerResume(tasks')

\* The crawl under the scheduling the claims about termination assume: the
\* event loop runs every task that is ready, and every fetch ends, with a
\* body or with a transport failure.
FairSpec ==
    /\ Init
    /\ [][CrawlNext]_vars
    /\ WF_vars(Run)

---------------------------------------------------------------------------
(* Vocabulary of the claims. *)

Tasks == 1..Len(tasks)

\* The invocations that have issued their fetch.
Fetched == {t \in Tasks : tasks[t].fetched}

\* The level of an invocation in the recursion tree; the seed is level 1.
RECURSIVE Level(_)
Level(t) == IF tasks[t].parent = 0 THEN 1 ELSE 1 + Level(tasks[t].parent)

\* The page_urls of a site map.
PageUrls(site_map) == {site_map[i].page_url : i \in 1..Len(site_map)}

\* The top-level invocation has returned its site map.
RootReturned == tasks # <<>> /\ tasks[1].pc = "returned"

\* The normal form of section 4.2: surrounding slashes removed, then the
\* literal scheme, then the literal www., each at most once.
RemovePrefix(s, prefix) ==
    IF startswith(s, prefix) THEN SubSeq(s, Len(prefix) + 1, Len(s)) ELSE s

Normalize(url) ==
    LET l1 == strip(url, CharsOf(SLASH))
        l2 == IF startswith(l1, HTTPS) THEN RemovePrefix(l1, HTTPS)
              ELSE RemovePrefix(l1, HTTP)
    IN  RemovePrefix(l2, WWW)

\* The image test of section 4.3.
ImageSuffixes ==
    { <<".","i","c","o">>, <<".","p","n","g">>, <<".","j","p","g">>, <<".","g","i","f">> }

IsImageUrl(url) == \E ext \in ImageSuffixes : StrEq(lower(Last4(url)), ext)

NormalizeOf == [u \in Urls |-> Normalize(u)]
IsImageUrlOf == [u \in Urls |-> IsImageUrl(u)]

---------------------------------------------------------------------------
(* C1 *)

\* C1: within the first top-level crawl of a process (which starts with an
\* empty visited set) no url is fetched by two invocations, and a returned
\* site map holds at most one record per page_url.
C1_NoUrlFetchedTwice ==
    calls = 1 =>
        /\ \A t1, t2 \in Fetched : tasks[t1].url = tasks[t2].url => t1 = t2
        /\ RootReturned =>
              \A i, j \in 1..Len(tasks[1].site_map) :
                 tasks[1].site_map[i].page_url = tasks[1].site_map[j].page_url
                    => i = j

---------------------------------------------------------------------------
(* C2 *)

\* C2: every invocation that has issued a fetch had a remaining depth above
\* 0 and lies at a level no deeper than the budget of the top-level call;
\* with budget 1 the seed is fetched and nothing else.
C2_FetchesWithinDepth ==
    /\ \A t \in Fetched :
          /\ tasks[t].max_depth > 0
          /\ Level(t) <= tasks[1].max_depth
    /\ (tasks # <<>> /\ tasks[1].max_depth = 1) =>
          Fetched = IF tasks[1].url = EMPTY THEN {} ELSE {1}

\* A crawl of budget 3 has fetched a page at level 3, and an invocation of
\* remaining depth 0 has ended without a fetch.
C2_Witness ==
    /\ tasks # <<>>
    /\ tasks[1].max_depth = 3
    /\ \E t \in Fetched : Level(t) = 3
    /\ \E t \in Tasks :
          tasks[t].max_depth = 0 /\ tasks[t].pc = "returned" /\ ~tasks[t].fetched

---------------------------------------------------------------------------
(* C3 *)

\* The largest number of distinct links on one page of the web.
MaxLinks ==
    CHOOSE n \in 0..Cardinality(Urls) :
        /\ \A u \in Urls : Cardinality(SetOf(Html(u))) <= n
        /\ \E u \in Urls : Cardinality(SetOf(Html(u))) = n

\* The size of the full tree of the given depth and fan-out MaxLinks.
RECURSIVE TreeSize(_)
TreeSize(depth) == IF depth <= 0 THEN 0 ELSE 1 + MaxLinks * TreeSize(depth - 1)

\* The top-level call is in progress.
Crawling == main_pc = "await"

\* C3: a top-level crawl whose fetches all end comes to an end itself (it
\* returns, or raises the failure of a fetch), and it never issues more
\* fetches than a tree of its depth budget has nodes.
C3_CrawlTerminates ==
    /\ [](tasks # <<>> => Cardinality(Fetched) <= TreeSize(tasks[1].max_depth))
    /\ Crawling ~> ~Crawling

\* A crawl of budget 3 over the cycle URL_S -> URL_C -> URL_S has returned.
C3_Witness ==
    /\ RootReturned
    /\ tasks[1].url = URL_S
    /\ tasks[1].max_depth = 3
    /\ URL_C \in PageUrls(tasks[1].site_map)
    /\ Cardinality(Fetched) >= 4

---------------------------------------------------------------------------
(* C4 *)

\* A fetch of the current top-level call has failed.
TransportFailed == \E t \in Tasks : tasks[t].exc = "TransportFailure"

\* C4: once a fetch of the current call has failed, the call does not
\* return a site map and main does not write data.json; when the call ends,
\* it ends by raising the transport failure.
C4_FailureAbortsCrawl ==
    [][TransportFailed' =>
          /\ main_pc' \in {"await", "raised"}
          /\ data_json' = data_json
          /\ main_pc' = "raised" => tasks'[1].exc = "TransportFailure"]_vars

\* The second call of main has raised a transport failure of a page below
\* the seed, after a sibling branch had returned its records; data.json
\* still holds what the first call wrote.
C4_Witness ==
    /\ calls = 2
    /\ main_pc = "raised"
    /\ tasks[1].exc = "TransportFailure"
    /\ data_json # <<>>
    /\ \E t \in Tasks : tasks[t].parent # 0 /\ tasks[t].exc = "TransportFailure"
                        /\ tasks[t].kids = <<>>
    /\ \E t \in Tasks : tasks[t].parent # 0 /\ tasks[t].pc = "returned"
                        /\ tasks[t].site_map # <<>>

---------------------------------------------------------------------------
(* C5 *)

\* The top-level call returns in this step.
ReturnsNow == main_pc' = "done" /\ (main_pc = "await" \/ calls' # calls)

\* C5: a crawl called with the arguments of the crawl that last returned
\* returns records of the same pages.
C5_SuccessiveCrawlsAgree ==
    [][(/\ ReturnsNow
        /\ prev_call = [url |-> tasks'[1].url, max_depth |-> tasks'[1].max_depth])
       => PageUrls(data_json') = PageUrls(data_json)]_vars

---------------------------------------------------------------------------
(* C6 *)

\* The invocations dispatched in this step.
Dispatched == IF calls' = calls THEN (Len(tasks) + 1)..Len(tasks') ELSE {}

\* C6: no invocation is dispatched for a url that spells the resource of a
\* url already in the visited set.
C6_NoRecrawlOfOtherSpelling ==
    [][\A i \in Dispatched : \A u \in processed_sites' :
          NormalizeOf[u] # NormalizeOf[tasks'[i].url]]_vars

---------------------------------------------------------------------------
(* C7 *)

\* C7: every url fetched below the seed is not an image and has a normal
\* form that starts with the seed's.
C7_FetchesStayInDomain ==
    \A t \in Fetched \ {1} :
        /\ ~IsImageUrlOf[tasks[t].url]
        /\ startswith(NormalizeOf[tasks[t].url], NormalizeOf[tasks[1].url])

---------------------------------------------------------------------------
(* C8, C9 *)

\* Invocation i runs lines 112-117 in this step.
EntersNow(i) ==
    /\ tasks'[i].pc # "pending"
    /\ calls' # calls \/ (i \in DOMAIN tasks /\ tasks[i].pc = "pending")

\* C8: an invocation entered with remaining depth 0 returns the empty list
\* at once, whatever its url, without a fetch and without a change of the
\* visited set.
C8_DepthZeroReturnsEmpty ==
    [][\A i \in 1..Len(tasks') :
          (EntersNow(i) /\ tasks'[i].max_depth = 0) =>
              /\ tasks'[i].pc = "returned"
              /\ tasks'[i].site_map = <<>>
              /\ ~tasks'[i].fetched
              /\ processed_sites' = processed_sites]_vars

\* The second call of main, with the empty url and depth 0, has returned the
\* empty list while the visited set holds the pages of the first call.
C8_Witness ==
    /\ calls = 2
    /\ tasks[1].url = EMPTY
    /\ tasks[1].max_depth = 0
    /\ tasks[1].pc = "returned"
    /\ tasks[1].site_map = <<>>
    /\ data_json = <<>>
    /\ processed_sites # {}

\* C9: an invocation entered with the empty url and a remaining depth above
\* 0 raises the configuration error at once, without a fetch and without a
\* change of the visited set.
C9_EmptyUrlRaises ==
    [][\A i \in 1..Len(tasks') :
          (EntersNow(i) /\ tasks'[i].url = EMPTY /\ tasks'[i].max_depth > 0) =>
              /\ tasks'[i].pc = "raised"
              /\ tasks'[i].exc = "Exception"
              /\ ~tasks'[i].fetched
              /\ processed_sites' = processed_sites]_vars

\* The second call of main, with the empty url and depth 2, has raised the
\* configuration error while the visited set holds the pages of the first.
C9_Witness ==
    /\ calls = 2
    /\ tasks[1].url = EMPTY
    /\ tasks[1].max_depth = 2
    /\ tasks[1].pc = "raised"
    /\ tasks[1].exc = "Exception"
    /\ main_pc = "raised"
    /\ Fetched = {}
    /\ processed_sites # {}

---------------------------------------------------------------------------
(* C10 *)

\* C10: a non-empty site map returned by the top-level call starts with the
\* record of the seed page.
C10_SeedRecordFirst ==
    (RootReturned /\ tasks[1].site_map # <<>>) =>
        tasks[1].site_map[1].page_url = tasks[1].url

\* The top-level call has joined two children and returned the records of
\* at least three pages, the seed's first and then the first child's.
C10_Witness ==
    /\ RootReturned
    /\ Len(tasks[1].site_map) >= 3
    /\ Len(tasks[1].kids) = 2
    /\ tasks[1].site_map[2].page_url = tasks[tasks[1].kids[1]].url

---------------------------------------------------------------------------
(* C11 *)

\* C11: every record of a returned site map is the record of one fetched
\* page: its page_url is the url an invocation fetched, its links are the
\* hrefs of that page's body that are not images (section 4.3), its images
\* are those that are, each href once, and no href is in both.
C11_RecordDescribesPage ==
    RootReturned =>
        \A i \in 1..Len(tasks[1].site_map) :
            LET record == tasks[1].site_map[i]
                hrefs == SetOf(Html(record.page_url))
            IN  /\ \E t \in Fetched :
                      /\ tasks[t].url = record.page_url
                      /\ tasks[t].site_map # <<>>
                      /\ tasks[t].site_map[1] = record
                /\ SetOf(record.links) = {u \in hrefs : ~IsImageUrlOf[u]}
                /\ SetOf(record.images) = {u \in hrefs : IsImageUrlOf[u]}
                /\ Len(record.links) = Cardinality(SetOf(record.links))
                /\ Len(record.images) = Cardinality(SetOf(record.images))
                /\ SetOf(record.links) \cap SetOf(record.images) = {}

---------------------------------------------------------------------------
(* C12 *)

\* C12: is_image_link(link) is true exactly when the last four characters
\* of link, lower-cased, are .ico, .png, .jpg or .gif.
C12_IsImageLinkExact ==
    applied.fn = "is_image_link" => (applied.out <=> IsImageUrl(applied.link))

---------------------------------------------------------------------------
(* C13 *)

\* C13: strip_http_www(link) is link without its surrounding slashes, then
\* without the literal prefix https:// or http://, then without the
\* literal prefix www., and every other character kept.
C13_StripExactPrefix ==
    applied.fn = "strip_http_www" => applied.out = Normalize(applied.link)

---------------------------------------------------------------------------
(* C14 *)

\* The links of the domain of domain_url, by sections 4.2 and 4.3.
DomainLinks(links, domain_url) ==
    SelectSeq(links,
        LAMBDA link :
            /\ startswith(Normalize(link), Normalize(domain_url))
            /\ ~IsImageUrl(link))

\* C14: get_domain_links(links, domain_url) returns exactly the links that
\* are not images and whose normal form starts with that of domain_url; no
\* image is returned and no such link is left out.
C14_DomainLinksExact ==
    applied.fn = "get_domain_links" =>
        /\ applied.out = DomainLinks(applied.links, applied.link)
        /\ \A i \in 1..Len(applied.out) : ~IsImageUrl(applied.out[i])

---------------------------------------------------------------------------
(* C15 *)

\* C15: get_image_links(L) and get_non_image_links(L) have no element in
\* common and hold, between them, every element of L as often as L does.
C15_Partition ==
    applied.fn = "partition" =>
        LET image_links == applied.out.image_links
            non_image_links == applied.out.non_image_links
        IN  /\ SetOf(image_links) \cap SetOf(non_image_links) = {}
            /\ SetOf(image_links) \cup SetOf(non_image_links)
                  = SetOf(applied.links)
            /\ Len(image_links) + Len(non_image_links) = Len(applied.links)

\* A list of an image and a link that is none has been split into the two.
C15_Witness ==
    /\ applied.fn = "partition"
    /\ applied.links = <<URL_P, URL_X>>
    /\ applied.out.image_links = <<URL_P>>
    /\ applied.out.non_image_links = <<URL_X>>

---------------------------------------------------------------------------
(* C16 *)

\* C16: whenever the fetch of an invocation is in flight, the url it
\* fetches is in the visited set.
C16_VisitedWhileFetching ==
    \A t \in Tasks : tasks[t].pc = "fetching" => tasks[t].url \in processed_sites

---------------------------------------------------------------------------
(* C17 *)

\* The fetch of the invocation has completed: its record is built.
FetchCompleted(task) == task.site_map # <<>>

\* C17: an invocation is dispatched only for a url that is not in the
\* visited set when the candidates are computed and that no invocation of
\* the crawl has fetched to completion; the dispatching step is the step
\* that completes the parent's fetch and inserts the parent's url, and no
\* other invocation moves in it.
C17_DispatchOnlyUnvisited ==
    [][\A i \in Dispatched :
          LET parent == tasks'[i].parent
          IN  /\ tasks'[i].url \notin processed_sites'
              /\ \A t \in 1..Len(tasks) :
                    tasks'[t].url = tasks'[i].url => ~FetchCompleted(tasks'[t])
              /\ tasks[parent].pc = "fetching"
              /\ tasks'[parent].pc = "gather"
              /\ tasks'[parent].url \in processed_sites'
              /\ \A t \in 1..Len(tasks) : t # parent => tasks'[t] = tasks[t]]_vars

\* Within one crawl two invocations, dispatched by different parents, have
\* both fetched URL_C to completion.
C17_Witness ==
    \E t1, t2 \in Tasks :
        /\ t1 < t2
        /\ tasks[t1].url = URL_C
        /\ tasks[t2].url = URL_C
        /\ tasks[t1].parent # tasks[t2].parent
        /\ FetchCompleted(tasks[t1])
        /\ FetchCompleted(tasks[t2])

---------------------------------------------------------------------------
(* C18 *)

\* The lists of outs, one after the other.
RECURSIVE Concat(_)
Concat(outs) == IF outs = <<>> THEN <<>> ELSE Head(outs) \o Concat(Tail(outs))

\* C18: an invocation that dispatched children has returned only if every
\* child has returned, and its result is the record of its own page followed
\* by the children's results in the order of dispatch.
C18_JoinBarrierAndOrder ==
    \A t \in Tasks :
        (tasks[t].pc = "returned" /\ tasks[t].kids # <<>>) =>
            LET kids == tasks[t].kids
            IN  /\ \A i \in 1..Len(kids) : tasks[kids[i]].pc = "returned"
                /\ tasks[t].site_map # <<>>
                /\ tasks[t].site_map[1].page_url = tasks[t].url
                /\ Tail(tasks[t].site_map)
                      = Concat([i \in 1..Len(kids) |-> tasks[kids[i]].site_map])

\* The seed dispatched URL_C before URL_B; the fetch of URL_B completed
\* first (its branch dispatched URL_C again, which it does only while the
\* first fetch of URL_C is in flight); the returned list still holds the
\* records of the first child's branch before those of the second's.
C18_Witness ==
    /\ RootReturned
    /\ Len(tasks[1].kids) = 2
    /\ tasks[tasks[1].kids[1]].url = URL_C
    /\ tasks[tasks[1].kids[2]].url = URL_B
    /\ \E t \in Tasks : tasks[t].parent = tasks[1].kids[2] /\ tasks[t].url = URL_C
                        /\ FetchCompleted(tasks[t])
    /\ Len(tasks[1].site_map) = 5
    /\ tasks[1].site_map[2].page_url = URL_C
    /\ tasks[1].site_map[3].page_url = URL_B

---------------------------------------------------------------------------
(* C19 *)

\* C19: no step removes a url from the visited set; a step that dispatches
\* children has put the parent's url into the set, so that no page
\* dispatches a crawl of itself; and when the top-level call has returned,
\* the page_url of every record is in the set and there are as many records
\* as fetches that completed.
C19_VisitedGrowsRecordsCount ==
    [][/\ processed_sites \subseteq processed_sites'
       /\ \A i \in Dispatched :
             /\ tasks'[tasks'[i].parent].url \in processed_sites'
             /\ tasks'[i].url # tasks'[tasks'[i].parent].url
       /\ RootReturned' =>
             /\ PageUrls(tasks'[1].site_map) \subseteq processed_sites'
             /\ Len(tasks'[1].site_map)
                   = Cardinality({t \in 1..Len(tasks') :
                                     FetchCompleted(tasks'[t])})]_vars

\* The second call of main has returned the records of three pages, among
\* them URL_B2, which links to itself, while the set still holds a url that
\* only the first call fetched.
C19_Witness ==
    /\ calls = 2
    /\ RootReturned
    /\ Len(tasks[1].site_map) >= 3
    /\ URL_B2 \in PageUrls(tasks[1].site_map)
    /\ processed_sites \ PageUrls(tasks[1].site_map) # {}

---------------------------------------------------------------------------
(* C20 *)

\* C20: an invocation ends by raising only when its own fetch fails or when
\* a child of its own has raised, whatever its other children are doing; the
\* failure of one branch ends no invocation of another.
C20_SiblingsNotCancelled ==
    [][calls' = calls =>
          \A t \in 1..Len(tasks) :
              (tasks'[t] # tasks[t] /\ tasks'[t].pc = "raised") =>
                  \/ /\ tasks[t].pc = "fetching"
                     /\ tasks'[t].exc = "TransportFailure"
                  \/ /\ tasks[t].pc = "gather"
                     /\ \E i \in 1..Len(tasks[t].kids) :
                           /\ tasks[tasks[t].kids[i]].pc = "raised"
                           /\ tasks'[t].exc = tasks[tasks[t].kids[i]].exc]_vars

\* The top-level call has raised the transport failure of one child while
\* another child's fetch is in flight, and that fetch can still complete
\* and insert its url, which the visited set does not hold yet.
C20_Witness ==
    /\ main_pc = "raised"
    /\ tasks[1].exc = "TransportFailure"
    /\ \E k, s \in Tasks :
          /\ tasks[k].parent = 1
          /\ tasks[k].exc = "TransportFailure"
          /\ tasks[s].parent = 1
          /\ tasks[s].pc = "fetching"
          /\ tasks[s].url \notin processed_sites
          /\ ENABLED (FetchComplete(s) /\ MainResume(tasks'))

===========================================================================
